---- MODULE Spec2Model ----
(***************************************************************************)
(* Model of lb.C: the depth-first search listBraids(maxB1) over positive   *)
(* braid words, its pruning predicates, and the DT-code extractor printDT. *)
(* Words are sequences of positive integers, 1-based here (the C++ vectors *)
(* are 0-based; index k of the source is index k+1 of the model).          *)
(***************************************************************************)
EXTENDS Integers, Sequences, FiniteSets, TLC

\* main() is run with a genus g in 0..MaxGenus and calls listBraids(2 * g).
MaxGenus == 3

\* the predicates are also called on their own, on every word of at most
\* MaxLen letters taken from 1..MaxLetter
MaxLen == 4
MaxLetter == 3

VARIABLES
    maxB1,      \* the parameter of listBraids, fixed for the whole run
    braid,      \* std::vector<int> braid, the word under construction
    counter,    \* int counter, number of records written so far
    pc,         \* "loop" while the while-loop of listBraids runs, "done" after it
    record,     \* the record written last (lines 248-249): the word, the
                \* result and code of printDT, and the text sent to std::cout
    ret         \* the value returned by a predicate called on its own

vars == <<maxB1, braid, counter, pc, record, ret>>

----------------------------------------------------------------------------
\* Braid invariant utilities

\* F applied to the value of e. Operator arguments are passed unevaluated, so
\* a loop that reads its accumulator several times is written with With to
\* have the accumulator computed once per iteration.
With(e, F(_)) == CHOOSE y \in {F(x) : x \in {e}} : TRUE

RECURSIVE max_loop(_, _, _)
max_loop(b, k, result) ==
    IF k > Len(b) THEN result
    ELSE With(IF b[k] > result THEN b[k] ELSE result,
              LAMBDA r : max_loop(b, k + 1, r))

\* int max(const std::vector<int> &b): largest letter, 1 for the empty word
max(b) == max_loop(b, 1, 1)

RECURSIVE sum_loop(_, _, _)
sum_loop(b, k, result) ==
    IF k > Len(b) THEN result ELSE sum_loop(b, k + 1, result + b[k])

sum(b) == sum_loop(b, 1, 0)

\* *std::max_element(b.begin(), b.end() - 1), for a word of length >= 2
max_element_butlast(b) ==
    CHOOSE x \in {b[k] : k \in 1..(Len(b) - 1)} :
        \A k \in 1..(Len(b) - 1) : b[k] <= x

\* mutation: the maximum is taken over the whole word, last letter included
lastLetterTooHigh_wholeRange(b, mB1) ==
    IF Len(b) < 2 THEN FALSE
    ELSE b[Len(b)] > 1 + max(b)

lastLetterTooHigh(b, mB1) ==
    IF Len(b) < 2 THEN FALSE
    ELSE b[Len(b)] > 1 + max_element_butlast(b)

\* mutation: the "else if" branch is missing, a strand only ever moves up
RECURSIVE walk_upOnly(_, _, _)
walk_upOnly(b, k, currentPos) ==
    IF k > Len(b) THEN currentPos
    ELSE With(IF b[k] = currentPos THEN currentPos + 1 ELSE currentPos,
              LAMBDA p : walk_upOnly(b, k + 1, p))

\* the for-loop of numberOfComponents: one walk of a strand through the word
RECURSIVE walk(_, _, _)
walk(b, k, currentPos) ==
    IF k > Len(b) THEN currentPos
    ELSE With(IF b[k] = currentPos THEN currentPos + 1
              ELSE IF b[k] = currentPos - 1 THEN currentPos - 1
              ELSE currentPos,
              LAMBDA p : walk(b, k + 1, p))

\* the inner "while (*i == 0)" loop: label the strands of one component
RECURSIVE label_loop(_, _, _, _)
label_loop(b, compNumber, i, compCounter) ==
    IF compNumber[i] # 0 THEN [compNumber |-> compNumber, i |-> i]
    ELSE With([compNumber |-> [compNumber EXCEPT ![i] = compCounter],
               i |-> walk(b, 1, i)],
              LAMBDA l : label_loop(b, l.compNumber, l.i, compCounter))

\* the "for (; i != end && *i != 0; ++i);" loop
RECURSIVE skip_loop(_, _)
skip_loop(compNumber, i) ==
    IF i <= Len(compNumber) /\ compNumber[i] # 0
    THEN skip_loop(compNumber, i + 1)
    ELSE i

\* the outer "while (i != compNumber.end())" loop
RECURSIVE comp_loop(_, _, _, _)
comp_loop(b, compNumber, i, compCounter) ==
    IF i = Len(compNumber) + 1 THEN compCounter
    ELSE With(label_loop(b, compNumber, i, compCounter + 1),
              LAMBDA l : comp_loop(b, l.compNumber,
                                   skip_loop(l.compNumber, l.i),
                                   compCounter + 1))

numberOfComponents(b) ==
    IF Len(b) = 0 THEN 0
    ELSE comp_loop(b, [k \in 1..(max(b) + 1) |-> 0], 1, 0)

\* mutation: the leading 1 is forgotten
b1_offByOne(b) == Len(b) - (max(b) + 1)

b1(b) == 1 + Len(b) - (max(b) + 1)

----------------------------------------------------------------------------
\* Canonical-form predicates

\* the inner loop of missingCrossingsForPrimality for column i
RECURSIVE twist_loop(_, _, _, _, _)
twist_loop(b, i, k, last, twistRegions) ==
    IF k > Len(b) THEN twistRegions
    ELSE IF (b[k] = i \/ b[k] = i + 1) /\ b[k] # last
         THEN twist_loop(b, i, k + 1, b[k], twistRegions + 1)
         ELSE twist_loop(b, i, k + 1, last, twistRegions)

\* mutation: every occurrence of i or i+1 counts as a twist region
twistRegions_countAll(b, i) ==
    Cardinality({k \in 1..Len(b) : b[k] = i \/ b[k] = i + 1})

twistRegions(b, i) == twist_loop(b, i, 1, -1, 0)

\* the outer loop; missingCrossings.at(j) of the source is missingCrossings[j+1]
RECURSIVE missing_loop(_, _, _, _)
missing_loop(b, columns, i, missingCrossings) ==
    IF i >= columns THEN missingCrossings
    ELSE With(twistRegions(b, i),
              LAMBDA t :
                 LET m1 == IF t = 2 /\ missingCrossings[i] = 0
                           THEN [missingCrossings EXCEPT ![i] = 1]
                           ELSE missingCrossings
                     m2 == IF t < 4 /\ m1[i + 1] = 0
                           THEN [m1 EXCEPT ![i + 1] = 1]
                           ELSE m1
                 IN  With(m2, LAMBDA m : missing_loop(b, columns, i + 1, m)))

\* mutation: the column loop stops one column early
missingCrossingsForPrimality_shortLoop(b) ==
    With(missing_loop(b, max(b) - 1, 1, [k \in 1..max(b) |-> 0]),
         LAMBDA missingCrossings : sum(missingCrossings))

missingCrossingsForPrimality(b) ==
    With(missing_loop(b, max(b), 1, [k \in 1..max(b) |-> 0]),
         LAMBDA missingCrossings : sum(missingCrossings))

\* std::lexicographical_compare(first1, last1, first2, last2) on ranges of b;
\* an iterator is the index of its letter, b.end() is Len(b) + 1
RECURSIVE lexicographical_compare(_, _, _, _, _)
lexicographical_compare(b, first1, last1, first2, last2) ==
    IF first1 = last1 \/ first2 = last2
    THEN first1 = last1 /\ first2 # last2
    ELSE IF b[first1] < b[first2] THEN TRUE
    ELSE IF b[first2] < b[first1] THEN FALSE
    ELSE lexicographical_compare(b, first1 + 1, last1, first2 + 1, last2)

\* the suffix that starts at i is compared with the prefix of the same length
lexicoGood(b) ==
    \A i \in 2..Len(b) :
        ~lexicographical_compare(b, i, Len(b) + 1, 1, 1 + (Len(b) + 1 - i))

\* the two "while" loops of reidemeister: walk backward from index k over the
\* letters outside {s-1, s, s+1}; 0 stands for b.rend()
RECURSIVE reid_skip(_, _, _)
reid_skip(b, k, s) ==
    IF k >= 1 /\ (b[k] < s - 1 \/ b[k] > s + 1)
    THEN reid_skip(b, k - 1, s)
    ELSE k

\* mutation: the second test accepts s instead of s-1
reidemeister_wrongSecond(b) ==
    LET s  == b[Len(b)]
        i1 == reid_skip(b, Len(b) - 1, s)
    IN  IF i1 = 0 \/ b[i1] = s \/ b[i1] = s + 1 THEN TRUE
        ELSE LET i2 == reid_skip(b, i1 - 1, s)
             IN  IF i2 = 0 \/ b[i2] = s \/ b[i2] = s + 1 THEN TRUE
                 ELSE FALSE

reidemeister(b) ==
    LET s  == b[Len(b)]
        i1 == reid_skip(b, Len(b) - 1, s)
    IN  IF i1 = 0 \/ b[i1] = s \/ b[i1] = s + 1 THEN TRUE
        ELSE LET i2 == reid_skip(b, i1 - 1, s)
             IN  IF i2 = 0 \/ b[i2] = s - 1 \/ b[i2] = s + 1 THEN TRUE
                 ELSE FALSE

----------------------------------------------------------------------------
\* Completability oracle

Bit(p) == IF p THEN 1 ELSE 0

\* mutation: the component test is dropped from the mask
completable_noComponents(b, mB1) ==
    1 +
    2 * Bit(missingCrossingsForPrimality(b) <= (mB1 - b1(b))) +
    4 * Bit(lexicoGood(b)) +
    8 * Bit(reidemeister(b))

completable(b, mB1) ==
    Bit(numberOfComponents(b) - (mB1 - b1(b)) <= 1) +
    2 * Bit(missingCrossingsForPrimality(b) <= (mB1 - b1(b))) +
    4 * Bit(lexicoGood(b)) +
    8 * Bit(reidemeister(b))

\* mutation: the new letter is always 1
appendLetter_one(b) == Append(b, 1)

\* mutation: the case of a last letter 1 is not treated apart
appendLetter_noFloor(b) == Append(b, b[Len(b)] - 1)

appendLetter(b) ==
    Append(b, IF b[Len(b)] = 1 THEN 1 ELSE b[Len(b)] - 1)

\* mutation: the sum is computed but not stored
increaseBack_notStored(b) == b

\* mutation: front() is increased instead of back()
increaseBack_front(b) == [b EXCEPT ![1] = @ + 1]

\* braid.back() += 1
increaseBack(b) == [b EXCEPT ![Len(b)] = @ + 1]

\* mutation: the new last letter is not increased after the pop
popBack_noIncrease(b) == SubSeq(b, 1, Len(b) - 1)

\* braid.pop_back(); braid.back() += 1;
popBack(b) == increaseBack(SubSeq(b, 1, Len(b) - 1))

----------------------------------------------------------------------------
\* DT-code extractor

\* what std::cout receives: characters (by code) and integers
Chr(c) == [t |-> "char", v |-> c]
Num(i) == [t |-> "int", v |-> i]

\* printBraid(b, s, newline): letter v is written as (char)(v + 96)
printBraid(b, newline) ==
    [k \in 1..Len(b) |-> Chr(b[k] + 96)] \o
    (IF newline THEN <<Chr(10)>> ELSE <<>>)

\* the body of the for-loop of printDT at letter k; st = [n, c, crossingCounter]
dt_visit(v, k, st) ==
    IF v[k] = st.c \/ v[k] = st.c + 1
    THEN LET cc   == st.crossingCounter
             rec  == st.n[k]
             rec1 == IF cc % 2 # 0 THEN [rec EXCEPT !.o = cc]
                     ELSE [rec EXCEPT !.e = cc]
             rec2 == [rec1 EXCEPT !.s = ((cc % 2 = 0) = (v[k] # st.c + 1))]
         IN  [n |-> [st.n EXCEPT ![k] = rec2],
              c |-> IF v[k] = st.c + 1 THEN st.c + 1 ELSE st.c - 1,
              crossingCounter |-> cc + 1]
    ELSE st

\* one pass of the for-loop over the word
RECURSIVE dt_pass(_, _, _)
dt_pass(v, k, st) ==
    IF k > Len(v) THEN st
    ELSE With(dt_visit(v, k, st), LAMBDA st1 : dt_pass(v, k + 1, st1))

\* mutation: a while loop, the test comes before the first pass
RECURSIVE dt_loop_whileLoop(_, _, _)
dt_loop_whileLoop(v, st, passed) ==
    IF st.c # 0
    THEN With(dt_pass(v, 1, st),
              LAMBDA st2 : dt_loop_whileLoop(v, st2, passed + 1))
    ELSE [n |-> st.n, passed |-> passed]

\* the do-while loop: passes until the walk is back on the first strand
RECURSIVE dt_loop(_, _, _)
dt_loop(v, st, passed) ==
    With(dt_pass(v, 1, st),
         LAMBDA st2 : IF st2.c # 0 THEN dt_loop(v, st2, passed + 1)
                      ELSE [n |-> st2.n, passed |-> passed + 1])

\* std::sort(n.begin(), n.end()) with intpair::operator< (o < other.o): every
\* order of the indices of n that is non-decreasing in o (the order of
\* records with equal o is unspecified)
RECURSIVE sort_orders(_, _)
sort_orders(n, S) ==
    IF S = {} THEN {<<>>}
    ELSE UNION {{<<i>> \o t : t \in sort_orders(n, S \ {i})} :
                i \in {j \in S : \A k \in S : n[j].o <= n[k].o}}

\* mutation: the odd label is written instead of the even one
dt_entry_odd(rec) == rec.o * (IF rec.s THEN 1 ELSE -1)

\* dt.at(k) = i->e * (i->s ? 1 : -1)
dt_entry(rec) == rec.e * (IF rec.s THEN 1 ELSE -1)

\* mutation: the sequence index is written 0-based
dt_text_zeroBased(dt, cnt) ==
    LET RECURSIVE entries(_)
        entries(j) == IF j > Len(dt) THEN <<>>
                      ELSE <<Chr(32), Num(dt[j])>> \o entries(j + 1)
    IN  <<Chr(58), Chr(32), Num(Len(dt)), Chr(32), Num(cnt - 1)>> \o
        entries(1) \o <<Chr(10)>>

\* the text printDT writes for the code dt
dt_text(dt, cnt) ==
    LET RECURSIVE entries(_)
        entries(j) == IF j > Len(dt) THEN <<>>
                      ELSE <<Chr(32), Num(dt[j])>> \o entries(j + 1)
    IN  <<Chr(58), Chr(32), Num(Len(dt)), Chr(32), Num(cnt)>> \o
        entries(1) \o <<Chr(10)>>

\* the value of "passed" when the do-while loop of printDT ends on the word v
dt_passes(v) ==
    dt_loop(v, [n |-> [k \in 1..Len(v) |-> [o |-> 0, e |-> 0, s |-> FALSE]],
                c |-> 0, crossingCounter |-> 1], 0).passed

\* bool printDT(v, counter): the set of possible outcomes, each with the
\* return value, the code and the text written
printDT(v, cnt) ==
    LET maxGen == max(v) - 1
        n0     == [k \in 1..Len(v) |-> [o |-> 0, e |-> 0, s |-> FALSE]]
    IN  With(dt_loop(v, [n |-> n0, c |-> 0, crossingCounter |-> 1], 0),
             LAMBDA r :
                IF r.passed # maxGen + 2
                THEN {[ok |-> FALSE, dt |-> <<>>, text |-> <<>>]}
                ELSE {With([k \in 1..Len(v) |-> dt_entry(r.n[p[k]])],
                           LAMBDA dt : [ok |-> TRUE, dt |-> dt,
                                        text |-> dt_text(dt, cnt)]) :
                      p \in sort_orders(r.n, 1..Len(v))})

----------------------------------------------------------------------------
\* Search driver: main and the while-loop of listBraids

NoRecord == [word |-> <<>>, ok |-> FALSE, dt |-> <<>>, text |-> <<>>]

NoCall == [fn |-> "none", bool |-> FALSE, int |-> 0]

Init ==
    /\ maxB1 \in {2 * g : g \in 0..MaxGenus}
    /\ braid = <<1, 1>>
    /\ counter = 0
    /\ pc = "loop"
    /\ record = NoRecord
    /\ ret = NoCall

\* lines 221-227: the last letter is too high
PopBack ==
    /\ pc = "loop" /\ Len(braid) > 1
    /\ lastLetterTooHigh(braid, maxB1)
    /\ braid' = popBack(braid)
    /\ UNCHANGED <<maxB1, counter, pc, record, ret>>

\* lines 231-236: the oracle rejects
Increase ==
    /\ pc = "loop" /\ Len(braid) > 1
    /\ ~lastLetterTooHigh(braid, maxB1)
    /\ completable(braid, maxB1) # 15
    /\ braid' = increaseBack(braid)
    /\ UNCHANGED <<maxB1, counter, pc, record, ret>>

\* lines 239-244: the word is too short
AppendLetter ==
    /\ pc = "loop" /\ Len(braid) > 1
    /\ ~lastLetterTooHigh(braid, maxB1)
    /\ completable(braid, maxB1) = 15
    /\ b1(braid) < maxB1
    /\ braid' = appendLetter(braid)
    /\ UNCHANGED <<maxB1, counter, pc, record, ret>>

\* lines 247-250: the word is written with its DT code
Emit ==
    /\ pc = "loop" /\ Len(braid) > 1
    /\ ~lastLetterTooHigh(braid, maxB1)
    /\ completable(braid, maxB1) = 15
    /\ ~(b1(braid) < maxB1)
    /\ counter' = counter + 1
    /\ \E r \in printDT(braid, counter + 1) :
          record' = [word |-> braid, ok |-> r.ok, dt |-> r.dt,
                     text |-> printBraid(braid, FALSE) \o r.text]
    /\ braid' = increaseBack(braid)
    /\ UNCHANGED <<maxB1, pc, ret>>

\* line 215: the loop condition fails and listBraids returns
Return ==
    /\ pc = "loop" /\ ~(Len(braid) > 1)
    /\ pc' = "done"
    /\ UNCHANGED <<maxB1, braid, counter, record, ret>>

Next == PopBack \/ Increase \/ AppendLetter \/ Emit \/ Return

Spec == Init /\ [][Next]_vars

\* the loop is sequential code: whenever a step is possible one is taken
LiveSpec == Spec /\ WF_vars(Next)

----------------------------------------------------------------------------
\* The predicates called on their own: braid holds the argument

BoundedWords == UNION {[1..n -> 1..MaxLetter] : n \in 1..MaxLen}

PureInit ==
    /\ maxB1 = 0
    /\ braid \in BoundedWords
    /\ counter = 0
    /\ pc = "call"
    /\ record = NoRecord
    /\ ret = NoCall

CallLexicoGood ==
    /\ pc = "call"
    /\ ret' = [fn |-> "lexicoGood", bool |-> lexicoGood(braid), int |-> 0]
    /\ pc' = "returned"
    /\ UNCHANGED <<maxB1, braid, counter, record>>

CallNumberOfComponents ==
    /\ pc = "call"
    /\ ret' = [fn |-> "numberOfComponents", bool |-> FALSE,
               int |-> numberOfComponents(braid)]
    /\ pc' = "returned"
    /\ UNCHANGED <<maxB1, braid, counter, record>>

PureNext == CallLexicoGood \/ CallNumberOfComponents

PureSpec == PureInit /\ [][PureNext]_vars

----------------------------------------------------------------------------
\* Properties of the search

\* the word of the record written last, if any: every emitted word is this
\* word in the state that follows its Emit step
Words == IF counter > 0 THEN {record.word} ELSE {}

\* x is lexicographically smaller than y
LexLess(x, y) ==
    \/ \E k \in 1..Len(x) :
          /\ k <= Len(y)
          /\ \A j \in 1..(k - 1) : x[j] = y[j]
          /\ x[k] < y[k]
    \/ /\ Len(x) < Len(y)
       /\ \A j \in 1..Len(x) : x[j] = y[j]

\* the cyclic rotation of w that starts at index i + 1
Rotation(w, i) == SubSeq(w, i + 1, Len(w)) \o SubSeq(w, 1, i)

Occurrences(w, x) == Cardinality({k \in 1..Len(w) : w[k] = x})

Letters(w) == {w[k] : k \in 1..Len(w)}

\* C1: every emitted word is lexicographically less than or equal to every
\* one of its cyclic rotations (full rotations, with wrap-around).
C1_CanonicalMinimality ==
    \A w \in Words : \A i \in 1..(Len(w) - 1) : ~LexLess(Rotation(w, i), w)

\* C2: every emitted word closes to one component and has b1 = maxB1
\* exactly; the emit branch is never reached with b1 > maxB1.
C2_KnotOfExactB1 ==
    \A w \in Words : numberOfComponents(w) = 1 /\ b1(w) = maxB1

C2_Witness ==
    \E w \in Words : Cardinality(Letters(w)) >= 3 /\ maxB1 = 6

\* C3: every generator that occurs in an emitted word occurs at least twice.
C3_GeneratorCoverage ==
    \A w \in Words : \A x \in Letters(w) : Occurrences(w, x) >= 2

C3_Witness ==
    \E w \in Words : \E x \in Letters(w) : x >= 2 /\ Occurrences(w, x) = 2

Abs(x) == IF x < 0 THEN -x ELSE x

\* C4: the DT code of an emitted word of length n is computed, has exactly n
\* entries, all nonzero, and their absolute values are exactly 2, 4, ..., 2n,
\* each occurring once.
C4_DTShape ==
    counter > 0 =>
        LET n  == Len(record.word)
            dt == record.dt
        IN  /\ record.ok
            /\ Len(dt) = n
            /\ \A j \in 1..n : dt[j] # 0
            /\ {Abs(dt[j]) : j \in 1..n} = {2 * j : j \in 1..n}
            /\ \A i, j \in 1..n : i # j => Abs(dt[i]) # Abs(dt[j])

C4_Witness ==
    /\ counter > 0
    /\ Len(record.word) >= 9
    /\ \E i, j \in 1..Len(record.dt) : record.dt[i] < 0 /\ record.dt[j] > 0

\* C5: the search performs finitely many transitions and then stops with the
\* word shrunk to length 1.
C5_Termination == <>(pc = "done" /\ Len(braid) = 1)

C5_Witness == pc = "done" /\ Len(braid) = 1 /\ maxB1 >= 4 /\ counter >= 1

\* C6: listBraids(2) emits exactly one word over the whole run, the word
\* [1,1,1], written as 'aaa'.
C6_GenusOne ==
    maxB1 = 2 =>
        /\ counter <= 1
        /\ pc = "done" => counter = 1
        /\ counter > 0 =>
              /\ record.word = <<1, 1, 1>>
              /\ SubSeq(record.text, 1, 3) = <<Chr(97), Chr(97), Chr(97)>>
              /\ \A k \in 4..Len(record.text) :
                    record.text[k].t = "char" => record.text[k].v <= 96

C6_Witness == maxB1 = 2 /\ pc = "done" /\ counter = 1

\* C7: listBraids(0) emits no record at all before it terminates.
C7_GenusZero ==
    maxB1 = 0 => counter = 0 /\ record = NoRecord

C7_Witness == maxB1 = 0 /\ pc = "done" /\ b1(<<1, 1>>) > maxB1

NoBigDescent(w) == \A k \in 1..(Len(w) - 1) : w[k + 1] >= w[k] - 1

\* C8: in every word the driver visits with a last letter that is not too
\* high, and in every emitted word, each letter is at least the preceding
\* letter minus 1.
C8_NoCommutingDescent ==
    /\ ~lastLetterTooHigh(braid, maxB1) => NoBigDescent(braid)
    /\ \A w \in Words : NoBigDescent(w)

C8_Witness ==
    /\ \E w \in Words : \E k \in 1..(Len(w) - 1) : w[k] >= 3 /\ w[k + 1] = w[k] - 1
    /\ ~lastLetterTooHigh(braid, maxB1)
    /\ \E k \in 1..(Len(braid) - 1) : braid[k] >= 3 /\ braid[k + 1] = braid[k] - 1

\* the indices before j whose letter lies in {s-1, s, s+1}
Near(w, j, s) == {k \in 1..(j - 1) : w[k] >= s - 1 /\ w[k] <= s + 1}

Nearest(S) == CHOOSE k \in S : \A m \in S : m <= k

\* position j of w passes the Reidemeister-III test
R3Good(w, j) ==
    LET s  == w[j]
        N1 == Near(w, j, s)
    IN  (N1 # {} /\ w[Nearest(N1)] = s - 1) =>
            LET N2 == Near(w, Nearest(N1), s)
            IN  N2 # {} => w[Nearest(N2)] # s

\* C9: at every position of an emitted word with letter s, if the nearest
\* earlier letter in {s-1, s, s+1} is s-1 then the next nearest one, if any,
\* is not s; no emitted word contains three consecutive letters i+1, i, i+1.
C9_NoReidemeisterIII ==
    \A w \in Words :
        /\ \A j \in 1..Len(w) : R3Good(w, j)
        /\ \A j \in 1..(Len(w) - 2) :
              ~(w[j] = w[j + 2] /\ w[j + 1] = w[j] - 1)

C9_Witness ==
    \E w \in Words : \E j \in 1..Len(w) :
        LET N1 == Near(w, j, w[j])
        IN  /\ N1 # {}
            /\ w[Nearest(N1)] = w[j] - 1
            /\ Near(w, Nearest(N1), w[j]) # {}

\* the letters of w as characters: generator v is the v-th lowercase letter
LetterText(w) == [k \in 1..Len(w) |-> Chr(96 + w[k])]

\* the entries of a code, each preceded by one space
EntryText(dt) ==
    [k \in 1..(2 * Len(dt)) |->
        IF k % 2 = 1 THEN Chr(32) ELSE Num(dt[k \div 2])]

\* ": ", the crossing count, the sequence index, the entries, end of line
CodeLine(w, idx, dt) ==
    <<Chr(58), Chr(32), Num(Len(w)), Chr(32), Num(idx)>> \o
    EntryText(dt) \o <<Chr(10)>>

\* C11 as stated: every record is a pair of lines, the word ended by a line
\* terminator, then ": " with the crossing count, the 1-based sequence index
\* and the signed DT entries.
C11_TwoLineRecord ==
    counter > 0 =>
        record.text = LetterText(record.word) \o <<Chr(10)>> \o
                      CodeLine(record.word, counter, record.dt)

\* C11 as amended: every record is one line, the word as lowercase letters
\* followed directly by ": ", the crossing count, the 1-based sequence index
\* and the signed DT entries separated by spaces; the only line terminator
\* is the one that ends the record.
C11_OneLineRecord ==
    counter > 0 =>
        /\ record.text = LetterText(record.word) \o
                         CodeLine(record.word, counter, record.dt)
        /\ \A k \in 1..Len(record.text) :
              record.text[k] = Chr(10) <=> k = Len(record.text)

C11_Witness ==
    /\ counter >= 2
    /\ Len(record.text) = 3 * Len(record.word) + 6
    /\ \E k \in 1..Len(record.word) : record.word[k] = 3

\* C12: lexicoGood(w) is true exactly when w is lexicographically less than
\* or equal to every one of its cyclic rotations.
C12_LexicoGoodExact ==
    ret.fn = "lexicoGood" =>
        (ret.bool <=>
            \A i \in 1..(Len(braid) - 1) : ~LexLess(Rotation(braid, i), braid))

\* C13 as stated: on every emitted word the traversal of printDT ends after
\* exactly strands(w) + 1 passes, strands(w) = max(w) + 1.
C13_PassesStrandsPlusOne ==
    \A w \in Words : dt_passes(w) = (max(w) + 1) + 1

\* C13 as amended: on every emitted word the traversal of printDT ends after
\* exactly strands(w) = max(w) + 1 passes, and this is the pass count the
\* consistency check requires (printDT returns true).
C13_PassesStrands ==
    counter > 0 =>
        /\ dt_passes(record.word) = max(record.word) + 1
        /\ record.ok

C13_Witness ==
    counter > 0 /\ max(record.word) >= 3 /\ dt_passes(record.word) >= 4

\* C14: printDT returns true on every emitted word, so every emitted word is
\* followed by its DT code.
C14_DTAlwaysPrinted ==
    counter > 0 =>
        /\ record.ok
        /\ Len(record.text) > Len(record.word)
        /\ Len(record.dt) = Len(record.word)

C14_Witness ==
    counter > 0 /\ record.ok /\ Cardinality(Letters(record.word)) >= 2

\* the transposition (i, i+1) of 1..n
Transposition(i, n) ==
    [p \in 1..n |-> IF p = i THEN i + 1 ELSE IF p = i + 1 THEN i ELSE p]

\* the permutation of 1..n composed from the first k letters of w, in order
RECURSIVE PermOf(_, _, _)
PermOf(w, k, n) ==
    IF k = 0 THEN [p \in 1..n |-> p]
    ELSE With(PermOf(w, k - 1, n),
              LAMBDA q : [p \in 1..n |-> Transposition(w[k], n)[q[p]]])

\* the orbit under f of the points of S
RECURSIVE OrbitFrom(_, _)
OrbitFrom(f, S) ==
    With(S \cup {f[x] : x \in S},
         LAMBDA T : IF T = S THEN S ELSE OrbitFrom(f, T))

Cycles(f) == {OrbitFrom(f, {p}) : p \in DOMAIN f}

Largest(w) == CHOOSE x \in Letters(w) : \A y \in Letters(w) : y <= x

\* C15: for a non-empty word w, numberOfComponents(w) is the number of
\* cycles of the permutation of 1..max(w)+1 composed from the transpositions
\* (i, i+1) of its letters.
C15_ComponentsAreCycles ==
    ret.fn = "numberOfComponents" =>
        ret.int = Cardinality(Cycles(PermOf(braid, Len(braid),
                                            Largest(braid) + 1)))

C15_Witness ==
    /\ ret.fn = "numberOfComponents"
    /\ Len(braid) >= 3
    /\ ret.int >= 2
    /\ ret.int < Largest(braid) + 1

\* C16 as stated: while the word has at least 2 letters it begins with the
\* two letters 1, 1 of the seed.
C16_SeedFixed ==
    Len(braid) >= 2 => braid[1] = 1 /\ braid[2] = 1

\* C16 as amended: while the word has at least 2 letters its first letter is
\* 1; the second letter is not fixed, it takes the values 1, 2 and 3.
C16_FirstLetterFixed ==
    Len(braid) >= 2 => braid[1] = 1 /\ braid[2] \in {1, 2, 3}

C16_Witness ==
    pc = "loop" /\ Len(braid) >= 3 /\ braid[1] = 1 /\ braid[2] = 2

\* the largest of the letters before index k, 0 if there is none
MaxBefore(w, k) ==
    IF k = 1 THEN 0
    ELSE CHOOSE x \in {w[j] : j \in 1..(k - 1)} :
            \A j \in 1..(k - 1) : w[j] <= x

\* C17: the word is never empty, every letter is at least 1, every letter
\* other than the last is at most 1 + the maximum of the letters before it
\* (so the driver never appends to a word whose last letter is too high),
\* and no emitted word has a last letter that is too high.
C17_WellFormed ==
    /\ Len(braid) >= 1
    /\ \A k \in 1..Len(braid) : braid[k] >= 1
    /\ \A k \in 1..(Len(braid) - 1) : braid[k] <= 1 + MaxBefore(braid, k)
    /\ \A w \in Words : w[Len(w)] <= 1 + MaxBefore(w, Len(w))

C17_Witness ==
    /\ pc = "loop" /\ Len(braid) >= 4
    /\ braid[Len(braid)] > 1 + MaxBefore(braid, Len(braid))
    /\ counter > 0

\* C18: whenever the driver evaluates the oracle, every column i with
\* 1 <= i < max(w) has at least 2 twist regions: both generator i and
\* generator i+1 occur in the word.
C18_AssertionNeverFires ==
    (pc = "loop" /\ Len(braid) > 1 /\ ~lastLetterTooHigh(braid, maxB1)) =>
        \A i \in 1..(max(braid) - 1) :
            /\ twistRegions(braid, i) >= 2
            /\ i \in Letters(braid)
            /\ i + 1 \in Letters(braid)

C18_Witness ==
    /\ pc = "loop" /\ Len(braid) > 1 /\ ~lastLetterTooHigh(braid, maxB1)
    /\ max(braid) >= 3
    /\ \E i \in 1..(max(braid) - 1) : twistRegions(braid, i) = 2

\* C19: every iteration of the loop replaces the word by a lexicographically
\* larger one (a word being smaller than its proper extensions), and every
\* record carries a word larger than the word of the record before it.
C19_StrictlyIncreasing ==
    [][/\ (pc = "loop" /\ pc' = "loop") => LexLess(braid, braid')
       /\ (counter > 0 /\ counter' > counter) =>
             LexLess(record.word, record'.word)]_vars

C19_Witness ==
    /\ counter >= 2
    /\ pc = "loop"
    /\ Len(braid) < Len(record.word)
    /\ LexLess(record.word, braid)

\* w is admitted by the pruning rules for the bound mB1, as a word of at
\* least minLen letters
Admitted(w, mB1, minLen) ==
    /\ Len(w) >= minLen
    /\ Len(w) >= 1
    /\ w[1] = 1
    /\ \A k \in 2..Len(w) :
          /\ w[k] >= (IF w[k - 1] - 1 > 1 THEN w[k - 1] - 1 ELSE 1)
          /\ w[k] <= 1 + MaxBefore(w, k)
    /\ \A n \in 2..(Len(w) - 1) :
          /\ completable(SubSeq(w, 1, n), mB1) = 15
          /\ b1(SubSeq(w, 1, n)) < mB1
    /\ completable(w, mB1) = 15
    /\ b1(w) = mB1

\* the admitted words that begin with p, p being a word whose proper
\* prefixes of length >= 2 all have mask 15 and b1 < mB1
RECURSIVE AdmittedFrom(_, _, _)
AdmittedFrom(p, mB1, minLen) ==
    (IF Admitted(p, mB1, minLen) THEN {p} ELSE {}) \cup
    (IF Len(p) < 2 \/ (completable(p, mB1) = 15 /\ b1(p) < mB1)
     THEN UNION {AdmittedFrom(Append(p, x), mB1, minLen) :
                 x \in (IF p[Len(p)] - 1 > 1 THEN p[Len(p)] - 1 ELSE 1)
                       ..(1 + MaxBefore(p, Len(p) + 1))}
     ELSE {})

\* C20 as stated: the emitted words are exactly the words admitted by the
\* pruning rules (no condition on the length): each emitted word is
\* admitted, no word is emitted twice, and at the end of the run as many
\* words were emitted as are admitted.
C20_EmitsExactlyAdmitted ==
    /\ \A w \in Words : Admitted(w, maxB1, 1)
    /\ pc = "done" => counter = Cardinality(AdmittedFrom(<<1>>, maxB1, 1))

\* C20 as amended: the emitted words are exactly the admitted words of
\* length at least 2.
C20_EmitsExactlyAdmittedFromSeed ==
    /\ [](/\ \A w \in Words : Admitted(w, maxB1, 2)
          /\ pc = "done" =>
                counter = Cardinality(AdmittedFrom(<<1>>, maxB1, 2)))
    /\ [][(counter > 0 /\ counter' > counter) => record'.word # record.word
          /\ LexLess(record.word, record'.word)]_vars

C20_Witness ==
    /\ pc = "done"
    /\ counter >= 2
    /\ counter = Cardinality(AdmittedFrom(<<1>>, maxB1, 2))

====
